---- MODULE Spec2Model ----
(***************************************************************************)
(* A model of the kv3 crate: the nom-based KeyValues3 parser of            *)
(* src/src/lib.rs and the serde mapping layer of src/src/kv3_serde.rs.     *)
(*                                                                         *)
(* Text is a sequence of one-character strings.  A cursor (nom's remaining *)
(* &str) is the pair of the whole text s and the 1-based index i of its    *)
(* first character; i = Len(s) + 1 is the empty remainder.  A parser       *)
(* returns an IResult: Ok(p, v) with the cursor p that remains and the     *)
(* value v, nom::Err::Error (recoverable: alt, many0, opt and              *)
(* separated_list0 go on) or nom::Err::Failure (propagated by all).        *)
(***************************************************************************)
EXTENDS Integers, Sequences, FiniteSets, TLC

VARIABLES input, pc, res, meta, out, acc

vars == <<input, pc, res, meta, out, acc>>

(***************************************************************************)
(* Character classes.                                                      *)
(***************************************************************************)
Digits == {"0", "1", "2", "3", "4", "5", "6", "7", "8", "9"}

Letters ==
    {"a", "b", "c", "d", "e", "f", "g", "h", "i", "j", "k", "l", "m", "n", "o",
     "p", "q", "r", "s", "t", "u", "v", "w", "x", "y", "z",
     "A", "B", "C", "D", "E", "F", "G", "H", "I", "J", "K", "L", "M", "N", "O",
     "P", "Q", "R", "S", "T", "U", "V", "W", "X", "Y", "Z"}

\* nom multispace1: space, tab, carriage return, line feed
MultiSpace == {" ", "\t", "\r", "\n"}

\* char::is_whitespace (str::trim_start, str::split_whitespace): also form feed
UniSpace == MultiSpace \cup {"\f"}

\* c.is_alphanumeric() || c == '_'
KeyChars == Letters \cup Digits \cup {"_"}

DigitVal(c) ==
    CASE c = "0" -> 0 [] c = "1" -> 1 [] c = "2" -> 2 [] c = "3" -> 3
      [] c = "4" -> 4 [] c = "5" -> 5 [] c = "6" -> 6 [] c = "7" -> 7
      [] c = "8" -> 8 [] c = "9" -> 9
      [] c \in {"a", "A"} -> 10 [] c \in {"b", "B"} -> 11
      [] c \in {"c", "C"} -> 12 [] c \in {"d", "D"} -> 13
      [] c \in {"e", "E"} -> 14 [] c \in {"f", "F"} -> 15
      [] OTHER -> 99

(***************************************************************************)
(* IResult.                                                                *)
(***************************************************************************)
Ok(p, v) == [k |-> "Ok", p |-> p, v |-> v]

Error == [k |-> "Err", p |-> 0, v |-> <<>>]

Failure == [k |-> "Fail", p |-> 0, v |-> <<>>]

IsOk(r) == r.k = "Ok"

Rest(s, p) == SubSeq(s, p, Len(s))

(***************************************************************************)
(* nom primitives.                                                         *)
(***************************************************************************)
StartsWith(s, i, t) ==
    /\ i + Len(t) - 1 <= Len(s)
    /\ \A j \in 1..Len(t) : s[i + j - 1] = t[j]

\* tag(t): the literal t, or Error
tag(s, i, t) == IF StartsWith(s, i, t) THEN Ok(i + Len(t), t) ELSE Error

RECURSIVE FindFrom(_, _, _)
\* the index of the first occurrence of t at or after i, 0 when there is none
FindFrom(s, i, t) ==
    IF i + Len(t) - 1 > Len(s) THEN 0
    ELSE IF StartsWith(s, i, t) THEN i
    ELSE FindFrom(s, i + 1, t)

\* take_until(t): everything before the first t, which is not consumed
take_until(s, i, t) ==
    LET j == FindFrom(s, i, t)
    IN  IF j = 0 THEN Error ELSE Ok(j, SubSeq(s, i, j - 1))

RECURSIVE RunEnd(_, _, _)
\* the index after the longest run of characters of class cls from i
RunEnd(s, i, cls) ==
    IF i <= Len(s) /\ s[i] \in cls THEN RunEnd(s, i + 1, cls) ELSE i

multispace1(s, i) ==
    LET j == RunEnd(s, i, MultiSpace)
    IN  IF j = i THEN Error ELSE Ok(j, <<>>)

digit1(s, i) ==
    LET j == RunEnd(s, i, Digits)
    IN  IF j = i THEN Error ELSE Ok(j, <<>>)

(***************************************************************************)
(* Lexical skipper.                                                        *)
(***************************************************************************)
\* a comment parser that knows the two slash styles only
parse_comment_no_xml(s, i) ==
    LET single_line ==
            IF IsOk(tag(s, i, <<"/", "/">>))
            THEN take_until(s, i + 2, <<"\n">>)
            ELSE Error
        multi_line ==
            IF IsOk(tag(s, i, <<"/", "*">>))
            THEN LET b == take_until(s, i + 2, <<"*", "/">>)
                 IN  IF IsOk(b) THEN tag(s, b.p, <<"*", "/">>) ELSE b
            ELSE Error
    IN  IF IsOk(single_line) THEN Ok(single_line.p, <<>>)
        ELSE IF IsOk(multi_line) THEN Ok(multi_line.p, <<>>)
        ELSE Error

parse_comment(s, i) ==
    LET single_line ==
            IF IsOk(tag(s, i, <<"/", "/">>))
            THEN take_until(s, i + 2, <<"\n">>)
            ELSE Error
        multi_line ==
            IF IsOk(tag(s, i, <<"/", "*">>))
            THEN LET b == take_until(s, i + 2, <<"*", "/">>)
                 IN  IF IsOk(b) THEN tag(s, b.p, <<"*", "/">>) ELSE b
            ELSE Error
        xml_style ==
            IF IsOk(tag(s, i, <<"<", "!", "-", "-">>))
            THEN LET b == take_until(s, i + 4, <<"-", "-", ">">>)
                 IN  IF IsOk(b) THEN tag(s, b.p, <<"-", "-", ">">>) ELSE b
            ELSE Error
    IN  IF IsOk(single_line) THEN Ok(single_line.p, <<>>)
        ELSE IF IsOk(multi_line) THEN Ok(multi_line.p, <<>>)
        ELSE IF IsOk(xml_style) THEN Ok(xml_style.p, <<>>)
        ELSE Error

\* a skipper of one round: opt in the place of many0
skip_one_round(s, i) ==
    IF IsOk(multispace1(s, i)) THEN multispace1(s, i)
    ELSE IF IsOk(parse_comment(s, i)) THEN parse_comment(s, i)
    ELSE Ok(i, <<>>)

RECURSIVE skip_comments_and_whitespace(_, _)
\* many0(alt((multispace1, parse_comment))): an Error of the alternatives ends
\* the repetition with what was consumed so far
skip_comments_and_whitespace(s, i) ==
    LET sp == multispace1(s, i)
        r  == IF IsOk(sp) THEN sp ELSE parse_comment(s, i)
    IN  IF ~IsOk(r) THEN Ok(i, <<>>)
        ELSE IF r.p = i THEN Error
        ELSE skip_comments_and_whitespace(s, r.p)

(***************************************************************************)
(* Numbers.  An i64 is its sign and its magnitude as a sequence of decimal *)
(* digits without leading zeros (<<0>> for zero), so that the 64-bit range *)
(* is compared digit by digit.  An f64 is zero, finite (the decimal        *)
(* 0.mant * 10^e, not rounded to binary) or infinite.                      *)
(***************************************************************************)
RECURSIVE StripZeros(_)
StripZeros(d) ==
    IF Len(d) > 1 /\ d[1] = 0 THEN StripZeros(Tail(d)) ELSE d

RECURSIVE StripTrailingZeros(_)
StripTrailingZeros(d) ==
    IF Len(d) > 1 /\ d[Len(d)] = 0
    THEN StripTrailingZeros(SubSeq(d, 1, Len(d) - 1))
    ELSE d

RECURSIVE LexLeq(_, _, _)
\* a <= b for digit sequences read as fractions 0.a and 0.b, from index j
LexLeq(a, b, j) ==
    IF j > Len(a) /\ j > Len(b) THEN TRUE
    ELSE LET x == IF j <= Len(a) THEN a[j] ELSE 0
             y == IF j <= Len(b) THEN b[j] ELSE 0
         IN  IF x < y THEN TRUE
             ELSE IF x > y THEN FALSE
             ELSE LexLeq(a, b, j + 1)

\* a <= b for magnitudes without leading zeros
MagLeq(a, b) ==
    IF Len(a) # Len(b) THEN Len(a) < Len(b) ELSE LexLeq(a, b, 1)

\* i64::MAX = 9223372036854775807 and the magnitude of i64::MIN
I64MaxMag == <<9, 2, 2, 3, 3, 7, 2, 0, 3, 6, 8, 5, 4, 7, 7, 5, 8, 0, 7>>

I64MinMag == <<9, 2, 2, 3, 3, 7, 2, 0, 3, 6, 8, 5, 4, 7, 7, 5, 8, 0, 8>>

IntVal(neg, mag) == [t |-> "Int", neg |-> (neg /\ mag # <<0>>), mag |-> mag]

DigitSeq(lex) == [j \in 1..Len(lex) |-> DigitVal(lex[j])]

\* str::parse::<i64>: optional sign, decimal digits, Err outside the i64 range
ParseI64(lex) ==
    LET signed == Len(lex) > 0 /\ lex[1] \in {"+", "-"}
        neg    == Len(lex) > 0 /\ lex[1] = "-"
        body   == IF signed THEN Tail(lex) ELSE lex
        mag    == StripZeros(DigitSeq(body))
    IN  IF Len(body) = 0 \/ \E j \in 1..Len(body) : body[j] \notin Digits
        THEN [ok |-> FALSE, v |-> <<>>]
        ELSE IF MagLeq(mag, IF neg THEN I64MinMag ELSE I64MaxMag)
        THEN [ok |-> TRUE, v |-> IntVal(neg, mag)]
        ELSE [ok |-> FALSE, v |-> <<>>]

\* f64::MAX is about 0.17976931348623157 * 10^309: a decimal at or above
\* 0.17976931348623158 * 10^309 rounds to infinity
F64MaxExp10 == 309

F64MaxMant == <<1, 7, 9, 7, 6, 9, 3, 1, 3, 4, 8, 6, 2, 3, 1, 5, 8>>

\* below 10^-324 a decimal rounds to zero
F64MinExp10 == -323

\* an exponent of more than ExpDigitsCap digits is beyond both ranges
ExpDigitsCap == 4

ExpSaturated == 10000

RECURSIVE DecVal(_)
DecVal(d) == IF Len(d) = 0 THEN 0 ELSE 10 * DecVal(SubSeq(d, 1, Len(d) - 1)) + d[Len(d)]

\* str::parse::<f64> on a lexeme of recognize_float: never an Err; a value
\* beyond the range becomes infinity, one below it zero
ParseF64(lex) ==
    LET signed  == Len(lex) > 0 /\ lex[1] \in {"+", "-"}
        neg     == Len(lex) > 0 /\ lex[1] = "-"
        body    == IF signed THEN Tail(lex) ELSE lex
        n       == Len(body)
        epos    == IF \E j \in 1..n : body[j] \in {"e", "E"}
                   THEN CHOOSE j \in 1..n : body[j] \in {"e", "E"}
                   ELSE n + 1
        dpos    == IF \E j \in 1..(epos - 1) : body[j] = "."
                   THEN CHOOSE j \in 1..(epos - 1) : body[j] = "."
                   ELSE epos
        ipart   == SubSeq(body, 1, dpos - 1)
        fpart   == SubSeq(body, dpos + 1, epos - 1)
        etext   == SubSeq(body, epos + 1, n)
        eneg    == Len(etext) > 0 /\ etext[1] = "-"
        edigits == IF Len(etext) > 0 /\ etext[1] \in {"+", "-"}
                   THEN Tail(etext) ELSE etext
        emag    == IF Len(StripZeros(DigitSeq(edigits))) > ExpDigitsCap
                   THEN ExpSaturated
                   ELSE DecVal(DigitSeq(edigits))
        exp     == IF eneg THEN 0 - emag ELSE emag
        all     == DigitSeq(ipart \o fpart)
        lead    == StripZeros(all)
        sci     == Len(lead) + exp - Len(fpart)
        mant    == StripTrailingZeros(lead)
    IN  IF Len(all) = 0 \/ lead = <<0>>
        THEN [t |-> "Double", neg |-> neg, cls |-> "zero", mant |-> <<0>>, e |-> 0]
        ELSE IF sci > F64MaxExp10 \/ (sci = F64MaxExp10 /\ LexLeq(F64MaxMant, mant, 1))
        THEN [t |-> "Double", neg |-> neg, cls |-> "inf", mant |-> <<0>>, e |-> 0]
        ELSE IF sci < F64MinExp10
        THEN [t |-> "Double", neg |-> neg, cls |-> "zero", mant |-> <<0>>, e |-> 0]
        ELSE [t |-> "Double", neg |-> neg, cls |-> "fin", mant |-> mant, e |-> sci]

\* nom recognize_float: [+-]? (digit+ ('.' digit*)? | '.' digit+)
\* ([eE] [+-]? cut(digit+))?; the cut makes an exponent without digits a Failure
recognize_float(s, i) ==
    LET a  == IF i <= Len(s) /\ s[i] \in {"+", "-"} THEN i + 1 ELSE i
        d1 == digit1(s, a)
        b  == IF IsOk(d1)
              THEN IF d1.p <= Len(s) /\ s[d1.p] = "."
                   THEN RunEnd(s, d1.p + 1, Digits)
                   ELSE d1.p
              ELSE IF a <= Len(s) /\ s[a] = "." /\ IsOk(digit1(s, a + 1))
                   THEN digit1(s, a + 1).p
                   ELSE 0
        c  == IF b <= Len(s) /\ s[b] \in {"e", "E"}
              THEN IF b + 1 <= Len(s) /\ s[b + 1] \in {"+", "-"} THEN b + 2 ELSE b + 1
              ELSE 0
    IN  IF b = 0 THEN Error
        ELSE IF c = 0 THEN Ok(b, SubSeq(s, i, b - 1))
        ELSE IF ~IsOk(digit1(s, c)) THEN Failure
        ELSE Ok(digit1(s, c).p, SubSeq(s, i, digit1(s, c).p - 1))

parse_number_or_float(s, i) ==
    LET i0 == RunEnd(s, i, UniSpace)
        r  == recognize_float(s, i0)
    IN  IF ~IsOk(r) THEN r
        ELSE IF \E j \in 1..Len(r.v) : r.v[j] \in {".", "e", "E"}
        THEN Ok(r.p, ParseF64(r.v))
        ELSE IF ParseI64(r.v).ok THEN Ok(r.p, ParseI64(r.v).v)
        ELSE Failure

(***************************************************************************)
(* KV3Value: a record tagged by t.  An Object's fields (a HashMap) is a    *)
(* function from keys (texts) to values.                                   *)
(***************************************************************************)
Bool(b) == [t |-> "Bool", b |-> b]

Null == [t |-> "Null"]

String(x) == [t |-> "String", s |-> x]

Array(a) == [t |-> "Array", a |-> a]

HexArray(h) == [t |-> "HexArray", h |-> h]

Object(f) == [t |-> "Object", f |-> f]

\* a map insertion that keeps the value already stored under the key
InsertKeepingFirst(m, key, v) ==
    [x \in (DOMAIN m) \cup {key} |-> IF x \in DOMAIN m THEN m[x] ELSE v]

\* HashMap::insert: a later value replaces the one stored under an equal key
Insert(m, key, v) == [x \in (DOMAIN m) \cup {key} |-> IF x = key THEN v ELSE m[x]]

RECURSIVE CollectFrom(_, _, _)
CollectFrom(kvs, j, m) ==
    IF j > Len(kvs) THEN m
    ELSE CollectFrom(kvs, j + 1, Insert(m, kvs[j][1], kvs[j][2]))

\* kvs.into_iter().collect::<HashMap<_, _>>()
Collect(kvs) == CollectFrom(kvs, 1, <<>>)

(***************************************************************************)
(* Primitive lexers.                                                       *)
(***************************************************************************)
\* take_while never fails: the key may be empty
parse_key(s, i) ==
    LET j == RunEnd(s, i, KeyChars)
    IN  Ok(j, SubSeq(s, i, j - 1))

Q1 == <<"\"">>

Q3 == <<"\"", "\"", "\"">>

\* a parse_string that tries the single-quoted form first
parse_string_single_first(s, i) ==
    LET multi ==
            IF IsOk(tag(s, i, Q3))
            THEN LET b == take_until(s, i + 3, Q3)
                 IN  IF IsOk(b) THEN Ok(b.p + 3, b.v) ELSE b
            ELSE Error
        single ==
            IF IsOk(tag(s, i, Q1))
            THEN LET b == take_until(s, i + 1, Q1)
                 IN  IF IsOk(b) THEN Ok(b.p + 1, b.v) ELSE b
            ELSE Error
    IN  IF IsOk(single) THEN single ELSE multi

parse_string(s, i) ==
    LET multi ==
            IF IsOk(tag(s, i, Q3))
            THEN LET b == take_until(s, i + 3, Q3)
                 IN  IF IsOk(b) THEN Ok(b.p + 3, b.v) ELSE b
            ELSE Error
        single ==
            IF IsOk(tag(s, i, Q1))
            THEN LET b == take_until(s, i + 1, Q1)
                 IN  IF IsOk(b) THEN Ok(b.p + 1, b.v) ELSE b
            ELSE Error
    IN  IF IsOk(multi) THEN multi ELSE single

RECURSIVE HexFrom(_, _, _)
\* the value of the hexadecimal digits of tok from j, -1 on a character that
\* is no digit or on a value above u8::MAX
HexFrom(tok, j, n) ==
    IF j > Len(tok) THEN n
    ELSE IF DigitVal(tok[j]) > 15 THEN -1
    ELSE IF 16 * n + DigitVal(tok[j]) > 255 THEN -1
    ELSE HexFrom(tok, j + 1, 16 * n + DigitVal(tok[j]))

\* u8::from_str_radix(tok, 16): one leading '+' is accepted, '-' is not
from_str_radix(tok) ==
    IF Len(tok) = 0 THEN -1
    ELSE IF Len(tok) = 1 /\ tok[1] \in {"+", "-"} THEN -1
    ELSE IF tok[1] = "+" THEN HexFrom(tok, 2, 0)
    ELSE HexFrom(tok, 1, 0)

RECURSIVE TokenEnd(_, _)
\* the index after the run of non-whitespace characters of c from j
TokenEnd(c, j) ==
    IF j <= Len(c) /\ c[j] \notin UniSpace THEN TokenEnd(c, j + 1) ELSE j

RECURSIVE split_whitespace(_, _)
\* the maximal runs of non-whitespace characters of c from index j, in order
split_whitespace(c, j) ==
    LET a == RunEnd(c, j, UniSpace)
        b == TokenEnd(c, a)
    IN  IF a > Len(c) THEN <<>>
        ELSE <<SubSeq(c, a, b - 1)>> \o split_whitespace(c, b)

RECURSIVE FilterBytes(_)
\* filter_map(|hex| u8::from_str_radix(hex, 16).ok())
FilterBytes(toks) ==
    IF Len(toks) = 0 THEN <<>>
    ELSE IF from_str_radix(Head(toks)) < 0 THEN FilterBytes(Tail(toks))
    ELSE <<from_str_radix(Head(toks))>> \o FilterBytes(Tail(toks))

\* a hex array that is opened by the bracket alone
parse_hex_array_unmarked(s, i) ==
    IF ~IsOk(tag(s, i, <<"[">>)) THEN Error
    ELSE LET b == take_until(s, i + 1, <<"]">>)
         IN  IF ~IsOk(b) THEN b
             ELSE Ok(b.p + 1, HexArray(FilterBytes(split_whitespace(b.v, 1))))

parse_hex_array(s, i) ==
    IF ~IsOk(tag(s, i, <<"#", "[">>)) THEN Error
    ELSE LET b == take_until(s, i + 2, <<"]">>)
         IN  IF ~IsOk(b) THEN b
             ELSE Ok(b.p + 1, HexArray(FilterBytes(split_whitespace(b.v, 1))))

(***************************************************************************)
(* Composite grammar.                                                      *)
(***************************************************************************)
RECURSIVE parse_value(_, _)
RECURSIVE parse_value_at(_, _)
RECURSIVE ws_parse_value(_, _)
RECURSIVE ws_parse_value_at(_, _)
RECURSIVE pair_from(_, _)
RECURSIVE parse_key_value(_, _)
RECURSIVE parse_key_value_at(_, _)
RECURSIVE ws_parse_key_value(_, _)
RECURSIVE many0_step(_, _, _, _)
RECURSIVE many0_key_value(_, _, _)
RECURSIVE many0_at(_, _)
RECURSIVE list_elem(_, _, _, _)
RECURSIVE list_sep(_, _, _, _)
RECURSIVE separated_list0(_, _, _)
RECURSIVE parse_elements(_, _)
RECURSIVE parse_elements_at(_, _)
RECURSIVE array_close(_, _, _)
RECURSIVE array_comma(_, _)
RECURSIVE parse_array(_, _)
RECURSIVE parse_object(_, _)

\* the second half of ws(inner): the skip behind the inner result b, whose
\* value is kept
ws_value(c, v) == IF ~IsOk(c) THEN c ELSE Ok(c.p, v)

ws_after(s, b) ==
    IF ~IsOk(b) THEN b ELSE ws_value(skip_comments_and_whitespace(s, b.p), b.v)

\* tag(t) at the cursor of the result a, whose error is passed on
tag_at(s, a, t) == IF ~IsOk(a) THEN a ELSE tag(s, a.p, t)

\* ws(tag(t))
ws_tag(s, i, t) == ws_after(s, tag_at(s, skip_comments_and_whitespace(s, i), t))

ws_tag_at(s, a, t) == IF ~IsOk(a) THEN a ELSE ws_tag(s, a.p, t)

parse_value_at(s, a) == IF ~IsOk(a) THEN a ELSE parse_value(s, a.p)

\* ws(parse_value)
ws_parse_value(s, i) ==
    ws_after(s, parse_value_at(s, skip_comments_and_whitespace(s, i)))

ws_parse_value_at(s, a) == IF ~IsOk(a) THEN a ELSE ws_parse_value(s, a.p)

parse_key_at(s, a) == IF ~IsOk(a) THEN a ELSE parse_key(s, a.p)

\* ws(parse_key)
ws_parse_key(s, i) ==
    ws_after(s, parse_key_at(s, skip_comments_and_whitespace(s, i)))

\* the pair of separated_pair from the results of its first and last parser
pair_of(key, val) == IF ~IsOk(val) THEN val ELSE Ok(val.p, <<key.v, val.v>>)

pair_from(s, key) ==
    pair_of(key, ws_parse_value_at(s, ws_tag_at(s, key, <<"=">>)))

\* separated_pair(ws(parse_key), ws(tag("=")), ws(parse_value))
parse_key_value(s, i) == pair_from(s, ws_parse_key(s, i))

parse_key_value_at(s, a) == IF ~IsOk(a) THEN a ELSE parse_key_value(s, a.p)

\* ws(parse_key_value)
ws_parse_key_value(s, i) ==
    ws_after(s, parse_key_value_at(s, skip_comments_and_whitespace(s, i)))

\* one round of many0 on the result r of its parser at i: an Error ends the
\* list at the cursor before the failed attempt, a Failure is returned, an
\* attempt that consumed nothing is an Error
many0_step(s, i, kvs, r) ==
    IF r.k = "Err" THEN Ok(i, kvs)
    ELSE IF r.k = "Fail" THEN r
    ELSE IF r.p = i THEN Error
    ELSE many0_key_value(s, r.p, Append(kvs, r.v))

\* many0(ws(parse_key_value))
many0_key_value(s, i, kvs) == many0_step(s, i, kvs, ws_parse_key_value(s, i))

many0_at(s, open) == IF ~IsOk(open) THEN open ELSE many0_key_value(s, open.p, <<>>)

\* separated_list0 on the result el of its element parser, i being the cursor
\* before the separator (or the start of the list): an Error ends the list at i
list_elem(s, i, elems, el) ==
    IF el.k = "Err" THEN Ok(i, elems)
    ELSE IF el.k = "Fail" THEN el
    ELSE separated_list0(s, el.p, Append(elems, el.v))

\* separated_list0 on the result sep of its separator parser at i
list_sep(s, i, elems, sep) ==
    IF sep.k = "Err" THEN Ok(i, elems)
    ELSE IF sep.k = "Fail" THEN sep
    ELSE IF sep.p = i THEN Error
    ELSE list_elem(s, i, elems, ws_parse_value(s, sep.p))

\* the loop of separated_list0(ws(tag(",")), ws(parse_value)) after an element
separated_list0(s, i, elems) == list_sep(s, i, elems, ws_tag(s, i, <<",">>))

\* separated_list0 from its start: no first element is the empty list
parse_elements(s, i) == list_elem(s, i, <<>>, ws_parse_value(s, i))

parse_elements_at(s, open) == IF ~IsOk(open) THEN open ELSE parse_elements(s, open.p)

array_end(elements, close) ==
    IF ~IsOk(close) THEN close ELSE Ok(close.p, Array(elements.v))

\* opt(ws(tag(","))) then ws(tag("]"))
array_close(s, elements, comma) ==
    IF comma.k = "Fail" THEN comma
    ELSE array_end(elements,
                   ws_tag(s, IF IsOk(comma) THEN comma.p ELSE elements.p, <<"]">>))

array_comma(s, elements) ==
    IF ~IsOk(elements) THEN elements
    ELSE array_close(s, elements, ws_tag(s, elements.p, <<",">>))

parse_array(s, i) == array_comma(s, parse_elements_at(s, ws_tag(s, i, <<"[">>)))

\* the pairs collected into a map once the closing brace is read
fields_end(kvs, close) ==
    IF ~IsOk(close) THEN close ELSE Ok(close.p, Collect(kvs.v))

fields_close(s, kvs) ==
    IF ~IsOk(kvs) THEN kvs ELSE fields_end(kvs, ws_tag(s, kvs.p, <<"}">>))

as_object(r) == IF ~IsOk(r) THEN r ELSE Ok(r.p, Object(r.v))

parse_object(s, i) ==
    as_object(fields_close(s, many0_at(s, ws_tag(s, i, <<"{">>))))

\* alt: an Error of the first parser tries the next one, an Ok or a Failure
\* is the result
alt(a, b) == IF a.k # "Err" THEN a ELSE b

\* value(v, tag(t))
value_tag(s, i, t, v) == IF IsOk(tag(s, i, t)) THEN Ok(i + Len(t), v) ELSE Error

\* map(parse_string, |s| KV3Value::String(s.to_string()))
map_string(r) == IF IsOk(r) THEN Ok(r.p, String(r.v)) ELSE r

\* alt of the eight alternatives in the order of the source
parse_value(s, i) ==
    alt(parse_array(s, i),
    alt(parse_hex_array(s, i),
    alt(parse_object(s, i),
    alt(value_tag(s, i, <<"f", "a", "l", "s", "e">>, Bool(FALSE)),
    alt(value_tag(s, i, <<"t", "r", "u", "e">>, Bool(TRUE)),
    alt(value_tag(s, i, <<"n", "u", "l", "l">>, Null),
    alt(parse_number_or_float(s, i),
        map_string(parse_string(s, i)))))))))

(***************************************************************************)
(* Root parser.                                                            *)
(***************************************************************************)
\* the end of the pairs taken for the end of the object
fields_unclosed(kvs, close) ==
    IF ~IsOk(close) THEN Ok(kvs.p, Collect(kvs.v)) ELSE Ok(close.p, Collect(kvs.v))

\* a root parser that does not insist on the closing brace
parse_kv3_unclosed(s) ==
    LET kvs == many0_at(s, ws_tag(s, 1, <<"{">>))
    IN  IF ~IsOk(kvs) THEN kvs
        ELSE fields_unclosed(kvs, ws_tag(s, kvs.p, <<"}">>))

\* a root parser that stops right behind the closing brace
parse_kv3_no_skip(s) ==
    LET kvs == many0_at(s, ws_tag(s, 1, <<"{">>))
    IN  IF ~IsOk(kvs) THEN kvs
        ELSE fields_end(kvs, tag_at(s, skip_comments_and_whitespace(s, kvs.p),
                                    <<"}">>))

parse_kv3(s) == fields_close(s, many0_at(s, ws_tag(s, 1, <<"{">>)))

(***************************************************************************)
(* Documents.  The texts given to parse_kv3 are built from pieces, so that *)
(* what a text says is known apart from the parser: a document is a frame  *)
(* (the text before the root's brace and after its closing brace) around   *)
(* at most MaxPairs pairs, each written key=value and followed by a space. *)
(* A value piece is its text, whether it is bad (no value can be read from *)
(* it) and, when it is good, the value it denotes.                         *)
(***************************************************************************)
MaxPairs == 2

Keys == {<<"a">>, <<"b">>}

Piece(text, bad, v) == [text |-> text, bad |-> bad, v |-> v]

One == IntVal(FALSE, <<1>>)

GoodValues ==
    { Piece(<<"1">>, FALSE, One),
      Piece(<<"-", "2", ".", "5">>, FALSE,
            [t |-> "Double", neg |-> TRUE, cls |-> "fin", mant |-> <<2, 5>>, e |-> 1]),
      Piece(<<"t", "r", "u", "e">>, FALSE, Bool(TRUE)),
      Piece(<<"\"", "s", " ", "\"">>, FALSE, String(<<"s", " ">>)),
      Piece(<<"[", "1", ",", " ", "n", "u", "l", "l", "]">>, FALSE, Array(<<One, Null>>)),
      Piece(<<"#", "[", "F", "F", " ", "0", "1", "]">>, FALSE, HexArray(<<255, 1>>)),
      \* {b=1 b=true}
      Piece(<<"{", "b", "=", "1", " ", "b", "=", "t", "r", "u", "e", "}">>, FALSE,
            Object(<<"b">> :> Bool(TRUE))),
      \* {a={} }
      Piece(<<"{", "a", "=", "{", "}", " ", "}">>, FALSE,
            Object(<<"a">> :> Object(<<>>))) }

BadValues ==
    { Piece(<<"$">>, TRUE, Null),
      \* no value at all
      Piece(<<>>, TRUE, Null),
      Piece(<<"[", "1", ",", "$", "]">>, TRUE, Null),
      \* i64::MAX + 1
      Piece(<<"9", "2", "2", "3", "3", "7", "2", "0", "3", "6", "8", "5", "4", "7",
              "7", "5", "8", "0", "8">>, TRUE, Null),
      \* {b=1 a=$}
      Piece(<<"{", "b", "=", "1", " ", "a", "=", "$", "}">>, TRUE, Null),
      \* {a=[{b=}]}
      Piece(<<"{", "a", "=", "[", "{", "b", "=", "}", "]", "}">>, TRUE, Null) }

Values == GoodValues \cup BadValues

Pairs == [key : Keys, val : Values]

SeqsUpTo(S, n) == UNION {[1..m -> S] : m \in 0..n}

\* lead: the text before the root's brace (junk: it is no whitespace or
\* comment); trail: the text after the closing brace; rest: what of trail
\* follows its leading whitespace and terminated comments
Frames ==
    { [lead |-> <<>>, junk |-> FALSE, trail |-> <<>>, rest |-> <<>>],
      [lead |-> <<" ", "<", "!", "-", "-", "c", "-", "-", ">", "\n">>, junk |-> FALSE,
       trail |-> <<" ", "/", "/", "t", "\n", "x", " ">>, rest |-> <<"x", " ">>],
      [lead |-> <<"/", "*", "{", "*", "/">>, junk |-> FALSE,
       trail |-> <<"\n", "/", "*", "u">>, rest |-> <<"/", "*", "u">>],
      [lead |-> <<"x", " ">>, junk |-> TRUE, trail |-> <<>>, rest |-> <<>>] }

RECURSIVE PairsText(_)
PairsText(ps) ==
    IF Len(ps) = 0 THEN <<>>
    ELSE Head(ps).key \o <<"=">> \o Head(ps).val.text \o <<" ">>
         \o PairsText(Tail(ps))

DocText(d) ==
    d.frame.lead \o <<"{">> \o PairsText(d.pairs) \o <<"}">> \o d.frame.trail

Docs == [frame : Frames, pairs : SeqsUpTo(Pairs, MaxPairs)]

AllGood(ps) == \A j \in 1..Len(ps) : ~ps[j].val.bad

\* the mapping a sequence of good pairs denotes: each key written, with the
\* value of the key's last occurrence
DenotedMap(ps) ==
    [key \in {ps[j].key : j \in 1..Len(ps)} |->
        ps[CHOOSE j \in 1..Len(ps) :
              /\ ps[j].key = key
              /\ \A l \in (j + 1)..Len(ps) : ps[l].key # key].val.v]

(***************************************************************************)
(* The parse of one document: Spec.                                        *)
(***************************************************************************)
Init ==
    /\ meta \in Docs
    /\ input = DocText(meta)
    /\ pc = "start"
    /\ res = Error
    /\ out = <<>>
    /\ acc = <<>>

\* a call of parse_kv3 on the text
ParseKv3 ==
    /\ pc = "start"
    /\ res' = parse_kv3(input)
    /\ pc' = "parsed"
    /\ UNCHANGED <<input, meta, out, acc>>

Next == ParseKv3

Spec == Init /\ [][Next]_vars

(***************************************************************************)
(* Properties of the parse.                                                *)
(***************************************************************************)
\* C1: when parse_kv3 succeeds the mapping has exactly one entry per distinct
\* key written between the braces, as many entries as distinct keys, and
\* each key maps to the value of its last occurrence; a nested object
\* (parse_object) is the mapping of its own pairs in the same way
C1_LastKeyWins ==
    (pc = "parsed" /\ IsOk(res)) =>
        /\ DOMAIN res.v = {meta.pairs[j].key : j \in 1..Len(meta.pairs)}
        /\ Cardinality(DOMAIN res.v)
             = Cardinality({meta.pairs[j].key : j \in 1..Len(meta.pairs)})
        /\ res.v = DenotedMap(meta.pairs)

\* a parse that succeeded on a key written twice, at the root and in a nested
\* object
C1_Witness ==
    /\ pc = "parsed" /\ IsOk(res)
    /\ Len(meta.pairs) = 2
    /\ meta.pairs[1].key = meta.pairs[2].key
    /\ meta.pairs[1].val.v # meta.pairs[2].val.v
    /\ meta.pairs[2].val.v = Object(<<"b">> :> Bool(TRUE))

\* C2: a pair, or a value nested in it, that cannot be read makes parse_kv3
\* return an error: never Ok with the pairs before the failure
C2_AllOrNothing ==
    (pc = "parsed" /\ ~AllGood(meta.pairs)) => ~IsOk(res)

\* a failure nested in the second pair, after a first pair that was read
C2_Witness ==
    /\ pc = "parsed" /\ ~IsOk(res)
    /\ ~meta.frame.junk
    /\ Len(meta.pairs) = 2
    /\ ~meta.pairs[1].val.bad
    /\ meta.pairs[2].val.bad
    /\ Len(meta.pairs[2].val.text) > 1

\* C8: text whose first token is not the brace is rejected; otherwise a
\* document of readable pairs is accepted whatever follows its closing brace,
\* and the cursor returned is the text left after the whitespace and
\* comments that follow that brace
C8_RootAndTrailing ==
    (pc = "parsed") =>
        /\ meta.frame.junk => ~IsOk(res)
        /\ (~meta.frame.junk /\ AllGood(meta.pairs)) =>
              /\ IsOk(res)
              /\ Rest(input, res.p) = meta.frame.rest
              /\ res.v = DenotedMap(meta.pairs)

\* a success that leaves text behind the closing brace
C8_Witness ==
    /\ pc = "parsed" /\ IsOk(res)
    /\ Len(meta.pairs) > 0
    /\ Len(meta.frame.lead) > 0
    /\ Rest(input, res.p) = <<"x", " ">>

(***************************************************************************)
(* The lexical skipper on its own: SpecSkip.  The texts are all the        *)
(* concatenations of at most MaxSkipTokens of the skipper's tokens.        *)
(***************************************************************************)
MaxSkipTokens == 4

SkipTokens ==
    { <<" ">>, <<"\n">>, <<"x">>, <<"/">>, <<"*">>, <<"/", "/">>, <<"/", "*">>,
      <<"*", "/">>, <<"<", "!", "-", "-">>, <<"-", "-", ">">> }

RECURSIVE Flatten(_)
Flatten(ts) == IF Len(ts) = 0 THEN <<>> ELSE Head(ts) \o Flatten(Tail(ts))

InitSkip ==
    /\ input \in {Flatten(ts) : ts \in SeqsUpTo(SkipTokens, MaxSkipTokens)}
    /\ pc = "start"
    /\ res = Error
    /\ meta = <<>>
    /\ out = <<>>
    /\ acc = <<>>

\* a call of skip_comments_and_whitespace on the text
SkipCall ==
    /\ pc = "start"
    /\ res' = skip_comments_and_whitespace(input, 1)
    /\ pc' = "skipped"
    /\ UNCHANGED <<input, meta, out, acc>>

NextSkip == SkipCall

SpecSkip == InitSkip /\ [][NextSkip]_vars

\* a comment opener at i whose terminator does not occur in the rest of s
Unterminated(s, i) ==
    \/ StartsWith(s, i, <<"/", "*">>) /\ FindFrom(s, i + 2, <<"*", "/">>) = 0
    \/ StartsWith(s, i, <<"<", "!", "-", "-">>)
         /\ FindFrom(s, i + 4, <<"-", "-", ">">>) = 0

\* C3: skip_comments_and_whitespace does not succeed with the cursor left at
\* a comment opener that is never terminated
C3_UnterminatedFails ==
    (pc = "skipped" /\ IsOk(res)) => ~Unterminated(input, res.p)

(***************************************************************************)
(* parse_array on its own: SpecArray.  The texts are all the strings of at *)
(* most MaxArrayLen characters of the array alphabet.                      *)
(***************************************************************************)
MaxArrayLen == 5

ArrayChars == {"[", "]", ",", "1", " "}

InitArray ==
    /\ input \in SeqsUpTo(ArrayChars, MaxArrayLen)
    /\ pc = "start"
    /\ res = Error
    /\ meta = <<>>
    /\ out = <<>>
    /\ acc = <<>>

\* a call of parse_array on the text
ArrayCall ==
    /\ pc = "start"
    /\ res' = parse_array(input, 1)
    /\ pc' = "array"
    /\ UNCHANGED <<input, meta, out, acc>>

NextArray == ArrayCall

SpecArray == InitArray /\ [][NextArray]_vars

\* The grammar '[' WS (Value (WS ',' WS Value)* (WS ',')?)? WS ']' read from
\* left to right with one character of lookahead, over ArrayChars: a Value
\* is a run of digits or an array, WS a run of spaces.  G(p, v) is a match
\* that ends before index p, NoMatch none.
G(p, v) == [ok |-> TRUE, p |-> p, v |-> v]

NoMatch == [ok |-> FALSE, p |-> 0, v |-> <<>>]

RECURSIVE GrammarArray(_, _)
RECURSIVE GrammarValue(_, _)
RECURSIVE GrammarTail(_, _, _)
GrammarValue(s, i) ==
    IF i <= Len(s) /\ s[i] \in Digits
    THEN G(RunEnd(s, i, Digits),
           IntVal(FALSE, StripZeros(DigitSeq(SubSeq(s, i, RunEnd(s, i, Digits) - 1)))))
    ELSE LET a == GrammarArray(s, i)
         IN  IF a.ok THEN G(a.p, Array(a.v)) ELSE NoMatch

\* after a Value: WS ']' ends the array; WS ',' WS ']' ends it behind a
\* trailing comma; WS ',' WS Value goes on
GrammarTail(s, i, elems) ==
    LET j == RunEnd(s, i, {" "})
        n == RunEnd(s, j + 1, {" "})
    IN  IF j > Len(s) THEN NoMatch
        ELSE IF s[j] = "]" THEN G(j + 1, elems)
        ELSE IF s[j] # "," THEN NoMatch
        ELSE IF n <= Len(s) /\ s[n] = "]" THEN G(n + 1, elems)
        ELSE LET v == GrammarValue(s, n)
             IN  IF v.ok THEN GrammarTail(s, v.p, Append(elems, v.v)) ELSE NoMatch

GrammarArray(s, i) ==
    LET j == RunEnd(s, i + 1, {" "})
    IN  IF ~(i <= Len(s) /\ s[i] = "[") THEN NoMatch
        ELSE IF j <= Len(s) /\ s[j] = "]" THEN G(j + 1, <<>>)
        ELSE LET v == GrammarValue(s, j)
             IN  IF v.ok THEN GrammarTail(s, v.p, <<v.v>>) ELSE NoMatch

\* C5: parse_array accepts exactly the texts of the grammar (after the
\* whitespace before the bracket) and returns their elements in order
C5_ArrayGrammar ==
    (pc = "array") =>
        LET g == GrammarArray(input, RunEnd(input, 1, {" "}))
        IN  /\ IsOk(res) <=> g.ok
            /\ IsOk(res) => res.v = Array(g.v)

(***************************************************************************)
(* parse_hex_array on its own: SpecHex.  The texts are #[ and ] around at  *)
(* most MaxHexTokens tokens, each behind one of the separators.  A token   *)
(* is its text, whether it is two hexadecimal digits, and its byte then.   *)
(***************************************************************************)
MaxHexTokens == 2

HexToken(text, twoDigits, byte) == [text |-> text, two |-> twoDigits, byte |-> byte]

HexTokens ==
    { HexToken(<<"F", "F">>, TRUE, 255),
      HexToken(<<"0", "0">>, TRUE, 0),
      HexToken(<<"a", "0">>, TRUE, 160),
      HexToken(<<"F">>, FALSE, 0),
      HexToken(<<"0", "F", "F">>, FALSE, 0),
      HexToken(<<"+", "F">>, FALSE, 0),
      HexToken(<<"F", "F", "F">>, FALSE, 0),
      HexToken(<<"G", "G">>, FALSE, 0),
      HexToken(<<"-", "1">>, FALSE, 0),
      HexToken(<<"/", "/">>, FALSE, 0) }

HexSeparators == {<<" ">>, <<"\n", "\t">>, <<"\f">>}

RECURSIVE HexText(_, _)
HexText(toks, sep) ==
    IF Len(toks) = 0 THEN <<>>
    ELSE sep \o Head(toks).text \o HexText(Tail(toks), sep)

RECURSIVE TwoDigitBytes(_)
\* the bytes of the two-digit tokens, in order
TwoDigitBytes(toks) ==
    IF Len(toks) = 0 THEN <<>>
    ELSE IF Head(toks).two THEN <<Head(toks).byte>> \o TwoDigitBytes(Tail(toks))
    ELSE TwoDigitBytes(Tail(toks))

InitHex ==
    /\ meta \in [toks : SeqsUpTo(HexTokens, MaxHexTokens), sep : HexSeparators]
    /\ input = <<"#", "[">> \o HexText(meta.toks, meta.sep) \o <<"]", " ">>
    /\ pc = "start"
    /\ res = Error
    /\ out = <<>>
    /\ acc = <<>>

\* a call of parse_hex_array on the text
HexCall ==
    /\ pc = "start"
    /\ res' = parse_hex_array(input, 1)
    /\ pc' = "hex"
    /\ UNCHANGED <<input, meta, out, acc>>

NextHex == HexCall

SpecHex == InitHex /\ [][NextHex]_vars

\* C6: the bytes of a hex array are those of its two-digit hexadecimal
\* tokens, in order; every other token is dropped without an error, so there
\* are no more bytes than tokens
C6_TwoDigitTokens ==
    (pc = "hex") =>
        /\ IsOk(res)
        /\ res.v = HexArray(TwoDigitBytes(meta.toks))
        /\ Len(res.v.h) <= Len(meta.toks)

(***************************************************************************)
(* Numeric lexemes: SpecNumber.  A lexeme is a sign, a body and, for a     *)
(* float, an exponent.  An integer body says whether it fits an i64 as a   *)
(* positive and as a negative number; a float body says whether it is      *)
(* above 1.7976931348623157 (the digits of f64::MAX), and is below 10.     *)
(***************************************************************************)
Signs == {<<>>, <<"-">>, <<"+">>}

IntBodies ==
    { [text |-> <<"0">>, pos |-> TRUE, neg |-> TRUE],
      [text |-> <<"0", "7">>, pos |-> TRUE, neg |-> TRUE],
      [text |-> <<"9", "2", "2", "3", "3", "7", "2", "0", "3", "6", "8", "5", "4", "7",
                  "7", "5", "8", "0", "7">>, pos |-> TRUE, neg |-> TRUE],
      [text |-> <<"9", "2", "2", "3", "3", "7", "2", "0", "3", "6", "8", "5", "4", "7",
                  "7", "5", "8", "0", "8">>, pos |-> FALSE, neg |-> TRUE],
      [text |-> <<"0", "9", "2", "2", "3", "3", "7", "2", "0", "3", "6", "8", "5", "4",
                  "7", "7", "5", "8", "0", "9">>, pos |-> FALSE, neg |-> FALSE],
      [text |-> <<"1", "0", "0", "0", "0", "0", "0", "0", "0", "0", "0", "0", "0", "0",
                  "0", "0", "0", "0", "0", "0">>, pos |-> FALSE, neg |-> FALSE] }

FloatBodies ==
    { [text |-> <<"1", ".">>, big |-> FALSE],
      [text |-> <<"1", ".", "7", "9">>, big |-> FALSE],
      [text |-> <<"1", ".", "8">>, big |-> TRUE],
      [text |-> <<"9", ".", "9">>, big |-> TRUE],
      [text |-> <<"2">>, big |-> TRUE] }

\* an exponent and its value; f64::MAX is 1.7976931348623157e308
Exponents ==
    { [text |-> <<"e", "0">>, val |-> 0],
      [text |-> <<"E", "+", "3", "0", "7">>, val |-> 307],
      [text |-> <<"e", "3", "0", "8">>, val |-> 308],
      [text |-> <<"e", "3", "0", "9">>, val |-> 309],
      [text |-> <<"e", "9", "9", "9">>, val |-> 999],
      [text |-> <<"E", "-", "9", "9", "9">>, val |-> -999] }

F64MaxDecimalExponent == 308

IntLexemes ==
    { [text |-> sg \o b.text, float |-> FALSE,
       fits |-> IF sg = <<"-">> THEN b.neg ELSE b.pos] :
        sg \in Signs, b \in IntBodies }

FloatLexemes ==
    { [text |-> sg \o b.text \o x.text, float |-> TRUE,
       fits |-> \/ x.val < F64MaxDecimalExponent
                \/ x.val = F64MaxDecimalExponent /\ ~b.big] :
        sg \in Signs, b \in FloatBodies, x \in Exponents }

InitNumber ==
    /\ meta \in IntLexemes \cup FloatLexemes
    /\ input = meta.text
    /\ pc = "start"
    /\ res = Error
    /\ out = <<>>
    /\ acc = <<>>

\* a call of parse_number_or_float on the lexeme
NumberCall ==
    /\ pc = "start"
    /\ res' = parse_number_or_float(input, 1)
    /\ pc' = "number"
    /\ UNCHANGED <<input, meta, out, acc>>

\* a call of parse_kv3 on a document whose one value is the lexeme
NumberInDocument ==
    /\ pc = "start"
    /\ input' = <<"{", "a", " ", "=", " ">> \o input \o <<" ", "}">>
    /\ res' = parse_kv3(input')
    /\ pc' = "document"
    /\ UNCHANGED <<meta, out, acc>>

NextNumber == NumberCall \/ NumberInDocument

SpecNumber == InitNumber /\ [][NextNumber]_vars

\* C7: a lexeme whose value does not fit the i64 range (an integer lexeme)
\* or the f64 range (a float lexeme) is a hard failure of
\* parse_number_or_float and of the parse_kv3 call that reads it
C7_OverflowFails ==
    (pc \in {"number", "document"} /\ ~meta.fits) => res.k = "Fail"

\* the integer half of C7: an integer lexeme fails hard exactly when its
\* value is outside the i64 range, and is the Int of its digits otherwise
C7_IntegerOverflowFails ==
    (pc \in {"number", "document"} /\ ~meta.float) =>
        /\ ~meta.fits => res.k = "Fail"
        /\ meta.fits => IsOk(res)

(***************************************************************************)
(* Whitespace and comments between tokens: SpecTrivia.  A document is kept *)
(* as its sequence of tokens; its text is their concatenation.  After a    *)
(* first parse, at most MaxInserts times, a piece of trivia is put between *)
(* two adjacent tokens (or before the first, or behind the last) and the   *)
(* text is parsed again.  out keeps the result of the first parse.         *)
(***************************************************************************)
MaxInserts == 2

TokenDocs ==
    { \* {a=[1,true,]}
      << <<"{">>, <<"a">>, <<"=">>, <<"[">>, <<"1">>, <<",">>, <<"t", "r", "u", "e">>,
         <<",">>, <<"]">>, <<"}">> >>,
      \* {a={b="s"}c=#[F 0]}
      << <<"{">>, <<"a">>, <<"=">>, <<"{">>, <<"b">>, <<"=">>, <<"\"", "s", "\"">>,
         <<"}">>, <<"c">>, <<"=">>, <<"#", "[", "F", " ", "0", "]">>, <<"}">> >>,
      \* {k=-2.5m="""q"""n=null}
      << <<"{">>, <<"k">>, <<"=">>, <<"-", "2", ".", "5">>, <<"m">>, <<"=">>,
         <<"\"", "\"", "\"", "q", "\"", "\"", "\"">>, <<"n">>, <<"=">>,
         <<"n", "u", "l", "l">>, <<"}">> >> }

\* whitespace, and a terminated comment of each of the three styles
Trivia ==
    { <<" ">>, <<"\r", "\n", "\t">>,
      <<"/", "/", "]", "\n">>,
      <<"/", "*", "}", "*", "/">>,
      <<"<", "!", "-", "-", "=", "-", "-", ">">> }

InsertAt(ts, i, x) == SubSeq(ts, 1, i) \o <<x>> \o SubSeq(ts, i + 1, Len(ts))

InitTrivia ==
    /\ meta \in [toks : TokenDocs, n : {0}]
    /\ input = Flatten(meta.toks)
    /\ pc = "start"
    /\ res = Error
    /\ out = Error
    /\ acc = <<>>

\* the text is edited: one piece of trivia more between two tokens
InsertTrivia ==
    /\ pc = "parsed"
    /\ meta.n < MaxInserts
    /\ \E i \in 0..Len(meta.toks), x \in Trivia :
          meta' = [toks |-> InsertAt(meta.toks, i, x), n |-> meta.n + 1]
    /\ input' = Flatten(meta'.toks)
    /\ out' = IF meta.n = 0 THEN res ELSE out
    /\ res' = Error
    /\ pc' = "start"
    /\ UNCHANGED acc

NextTrivia == ParseKv3 \/ InsertTrivia

SpecTrivia == InitTrivia /\ [][NextTrivia]_vars

\* C4: whitespace and terminated comments of the three styles put between
\* the tokens of a well-formed document leave the result of parse_kv3
\* unchanged: it succeeds with the same keys and the same values
C4_TriviaIgnored ==
    (pc = "parsed" /\ meta.n > 0) =>
        /\ IsOk(out)
        /\ IsOk(res)
        /\ res.v = out.v

\* two insertions, one of them an XML-style comment right behind an equals
\* sign, and a parse of the edited text
C4_Witness ==
    /\ pc = "parsed" /\ meta.n = 2 /\ IsOk(res)
    /\ \E j \in 2..Len(meta.toks) :
          /\ meta.toks[j] = <<"<", "!", "-", "-", "=", "-", "-", ">">>
          /\ meta.toks[j - 1] = <<"=">>

(***************************************************************************)
(* Mapping to a schema.  A Result of the mapping is DOk with the typed     *)
(* value or DErr with the error.  An Option is Some(x) or None.            *)
(***************************************************************************)
DOk(v) == [ok |-> TRUE, v |-> v, err |-> <<>>]

DErr(e) == [ok |-> FALSE, v |-> <<>>, err |-> e]

Some(x) == [some |-> TRUE, v |-> x]

None == [some |-> FALSE, v |-> <<>>]

RECURSIVE into_iter(_, _)
\* HashMap::into_iter: the entries of fields, each once, in the order the
\* hasher gives them; order lists the keys in that order
into_iter(fields, order) ==
    IF Len(order) = 0 THEN <<>>
    ELSE IF Head(order) \in DOMAIN fields
    THEN <<<<Head(order), fields[Head(order)]>>>> \o into_iter(fields, Tail(order))
    ELSE into_iter(fields, Tail(order))

\* KV3ObjectMapAccess { iter: fields.into_iter(), value: None }
KV3ObjectMapAccess(fields, order) ==
    [iter |-> into_iter(fields, order), value |-> None]

\* a call on an access object: the object after the call, and what the call
\* hands to the seed (r) or the error it returns (ok is FALSE)
Called(access, ok, r) == [acc |-> access, ok |-> ok, r |-> r]

\* MapAccess::next_key_seed; the seed is applied to r by the caller
next_key_seed(ma) ==
    IF Len(ma.iter) > 0
    THEN Called([iter |-> Tail(ma.iter), value |-> Some(Head(ma.iter)[2])],
                TRUE, Some(Head(ma.iter)[1]))
    ELSE Called(ma, TRUE, None)

\* a next_value_seed that leaves the value in place
next_value_seed_keeping(ma) ==
    IF ma.value.some
    THEN Called(ma, TRUE, Some(ma.value.v))
    ELSE Called(ma, FALSE, None)

\* MapAccess::next_value_seed: self.value.take()
next_value_seed(ma) ==
    IF ma.value.some
    THEN Called([iter |-> ma.iter, value |-> None], TRUE, Some(ma.value.v))
    ELSE Called(ma, FALSE, None)

RECURSIVE IntOfByte(_)
\* the decimal digits of a byte
IntOfByte(b) == IF b < 10 THEN <<b>> ELSE Append(IntOfByte(b \div 10), b % 10)

\* KV3ValueSeqAccess { iter } of an Array, or of a HexArray whose bytes are
\* turned into Int values
KV3ValueSeqAccess(v) ==
    IF v.t = "HexArray"
    THEN [iter |-> [j \in 1..Len(v.h) |-> IntVal(FALSE, IntOfByte(v.h[j]))]]
    ELSE [iter |-> v.a]

\* SeqAccess::next_element_seed
next_element_seed(sa) ==
    IF Len(sa.iter) > 0
    THEN Called([iter |-> Tail(sa.iter)], TRUE, Some(Head(sa.iter)))
    ELSE Called(sa, TRUE, None)

(***************************************************************************)
(* Schemas: the types T of serde_kv3::<T> and of their fields, with the    *)
(* visitors serde gives them.  A struct is its field names in declaration  *)
(* order and their types.                                                  *)
(***************************************************************************)
TI32 == [k |-> "i32"]

TI64 == [k |-> "i64"]

TF32 == [k |-> "f32"]

TBool == [k |-> "bool"]

TString == [k |-> "String"]

TVec(el) == [k |-> "Vec", el |-> el]

TStruct(names, types) == [k |-> "struct", names |-> names, types |-> types]

\* the type serde gives the value of a key that is no field of the struct
IgnoredAny == [k |-> "IgnoredAny"]

Unit == [t |-> "Unit"]

I32MaxMag == <<2, 1, 4, 7, 4, 8, 3, 6, 4, 7>>

I32MinMag == <<2, 1, 4, 7, 4, 8, 3, 6, 4, 8>>

InI32(v) == MagLeq(v.mag, IF v.neg THEN I32MinMag ELSE I32MaxMag)

invalid_type(T, unexpected) == DErr(<<"invalid type", unexpected, T.k>>)

\* the value a visitor of T returns for the scalar it accepted: IgnoredAny
\* drops it, f32 is the number cast to f32, the others keep it
Accepted(T, v) ==
    IF T.k = "IgnoredAny" THEN DOk(Unit)
    ELSE IF T.k = "f32" THEN DOk([t |-> "F32", of |-> v])
    ELSE DOk(v)

visit_bool(T, v) ==
    IF T.k \in {"bool", "IgnoredAny"} THEN Accepted(T, v)
    ELSE invalid_type(T, "Bool")

\* a visit_i64 without the range check of a narrower integer
visit_i64_unchecked(T, v) ==
    IF T.k \in {"i32", "i64", "f32", "IgnoredAny"} THEN Accepted(T, v)
    ELSE invalid_type(T, "Signed")

\* an i32 takes an i64 of its own range only; i64 and f32 take every i64
visit_i64(T, v) ==
    IF T.k = "i32" /\ ~InI32(v) THEN DErr(<<"invalid value", "Signed", T.k>>)
    ELSE IF T.k \in {"i32", "i64", "f32", "IgnoredAny"} THEN Accepted(T, v)
    ELSE invalid_type(T, "Signed")

visit_f64(T, v) ==
    IF T.k \in {"f32", "IgnoredAny"} THEN Accepted(T, v)
    ELSE invalid_type(T, "Float")

visit_string(T, v) ==
    IF T.k \in {"String", "IgnoredAny"} THEN Accepted(T, v)
    ELSE invalid_type(T, "Str")

visit_unit(T) ==
    IF T.k = "IgnoredAny" THEN DOk(Unit) ELSE invalid_type(T, "Unit")

RECURSIVE deserialize_any(_, _, _)
RECURSIVE visit_seq(_, _, _)
RECURSIVE visit_map(_, _, _)
RECURSIVE VecVisitSeq(_, _, _, _)
RECURSIVE VecElement(_, _, _, _)
RECURSIVE VecPush(_, _, _, _, _)
RECURSIVE StructVisitSeq(_, _, _, _, _)
RECURSIVE StructElement(_, _, _, _, _)
RECURSIVE StructElementPut(_, _, _, _, _, _)
RECURSIVE StructVisitMap(_, _, _, _)
RECURSIVE StructKey(_, _, _, _)
RECURSIVE StructValue(_, _, _, _, _)
RECURSIVE StructPut(_, _, _, _, _, _)

\* the drained sequence or map of an IgnoredAny is dropped
Ignored(d) == IF d.ok THEN DOk(Unit) ELSE d

\* Vec<E>::visit_seq: every element of the sequence, in order
VecVisitSeq(E, sa, vec, order) == VecElement(E, next_element_seed(sa), vec, order)

VecElement(E, n, vec, order) ==
    IF ~n.r.some THEN DOk(vec)
    ELSE VecPush(E, n.acc, deserialize_any(E, n.r.v, order), vec, order)

VecPush(E, sa, d, vec, order) ==
    IF ~d.ok THEN d ELSE VecVisitSeq(E, sa, Append(vec, d.v), order)

\* the visit_seq of a derived struct: the fields in declaration order from
\* the first elements of the sequence; further elements are left unread
StructVisitSeq(T, sa, j, got, order) ==
    IF j > Len(T.names) THEN DOk(got)
    ELSE StructElement(T, next_element_seed(sa), j, got, order)

StructElement(T, n, j, got, order) ==
    IF ~n.r.some THEN DErr(<<"invalid length", j - 1>>)
    ELSE StructElementPut(T, n.acc, deserialize_any(T.types[j], n.r.v, order),
                          j, got, order)

StructElementPut(T, sa, d, j, got, order) ==
    IF ~d.ok THEN d
    ELSE StructVisitSeq(T, sa, j + 1, Insert(got, T.names[j], d.v), order)

\* the type of the value of key: the field's type, IgnoredAny for a key that
\* is no field
FieldType(T, key) ==
    IF \E j \in 1..Len(T.names) : T.names[j] = key
    THEN T.types[CHOOSE j \in 1..Len(T.names) : T.names[j] = key]
    ELSE IgnoredAny

\* the end of a derived visit_map: the first field without a value is missing
StructEnd(T, got) ==
    IF \E j \in 1..Len(T.names) : T.names[j] \notin DOMAIN got
    THEN DErr(<<"missing field",
                T.names[CHOOSE j \in 1..Len(T.names) :
                           /\ T.names[j] \notin DOMAIN got
                           /\ \A l \in 1..(j - 1) : T.names[l] \in DOMAIN got]>>)
    ELSE DOk(got)

\* the visit_map of a derived struct: key after key, each followed by its
\* value read as the field's type
StructVisitMap(T, ma, got, order) == StructKey(T, next_key_seed(ma), got, order)

StructKey(T, n, got, order) ==
    IF ~n.r.some THEN StructEnd(T, got)
    ELSE IF n.r.v \in DOMAIN got THEN DErr(<<"duplicate field", n.r.v>>)
    ELSE StructValue(T, n.r.v, next_value_seed(n.acc), got, order)

StructValue(T, key, n, got, order) ==
    IF ~n.ok THEN DErr(<<"Value is missing for KV3Object map">>)
    ELSE StructPut(T, key, n.acc,
                   deserialize_any(FieldType(T, key), n.r.v, order), got, order)

StructPut(T, key, ma, d, got, order) ==
    IF ~d.ok THEN d
    ELSE IF FieldType(T, key) = IgnoredAny THEN StructVisitMap(T, ma, got, order)
    ELSE StructVisitMap(T, ma, Insert(got, key, d.v), order)

\* Visitor::visit_seq of the type T
visit_seq(T, sa, order) ==
    IF T.k = "Vec" THEN VecVisitSeq(T.el, sa, <<>>, order)
    ELSE IF T.k = "struct" THEN StructVisitSeq(T, sa, 1, <<>>, order)
    ELSE IF T.k = "IgnoredAny" THEN Ignored(VecVisitSeq(IgnoredAny, sa, <<>>, order))
    ELSE invalid_type(T, "Seq")

\* Visitor::visit_map of the type T; IgnoredAny reads every entry as a struct
\* without fields does
visit_map(T, ma, order) ==
    IF T.k = "struct" THEN StructVisitMap(T, ma, <<>>, order)
    ELSE IF T.k = "IgnoredAny"
    THEN Ignored(StructVisitMap(TStruct(<<>>, <<>>), ma, <<>>, order))
    ELSE invalid_type(T, "Map")

\* Deserializer::deserialize_any for KV3Value
deserialize_any(T, v, order) ==
    IF v.t = "Bool" THEN visit_bool(T, v)
    ELSE IF v.t = "Int" THEN visit_i64(T, v)
    ELSE IF v.t = "Double" THEN visit_f64(T, v)
    ELSE IF v.t = "String" THEN visit_string(T, v)
    ELSE IF v.t \in {"Array", "HexArray"} THEN visit_seq(T, KV3ValueSeqAccess(v), order)
    ELSE IF v.t = "Object" THEN visit_map(T, KV3ObjectMapAccess(v.f, order), order)
    ELSE visit_unit(T)

\* Deserializer::deserialize_any for KV3Object
KV3Object_deserialize_any(T, fields, order) ==
    visit_map(T, KV3ObjectMapAccess(fields, order), order)

\* T::deserialize(kv3_object) on the result of parse_kv3
deserialize_parsed(T, r, order) ==
    IF ~IsOk(r) THEN DErr(<<"parse", r.k>>)
    ELSE KV3Object_deserialize_any(T, r.v, order)

serde_kv3(s, T, order) == deserialize_parsed(T, parse_kv3(s), order)

(***************************************************************************)
(* serde_kv3 into a struct: SpecSerde.  A document of at most MaxFields    *)
(* pairs, followed by text behind its closing brace, is mapped to one of   *)
(* the schemas, the hasher giving the entries of a map in one of the       *)
(* orders of the keys.                                                     *)
(***************************************************************************)
MaxFields == 2

X == <<"x">>

Y == <<"y">>

SerdeKeys == {X, Y}

KeyOrders == {<<X, Y>>, <<Y, X>>}

Five == IntVal(FALSE, <<5>>)

SerdeValues ==
    { \* i32::MIN and i32::MAX + 1
      Piece(<<"-", "2", "1", "4", "7", "4", "8", "3", "6", "4", "8">>, FALSE,
            IntVal(TRUE, I32MinMag)),
      Piece(<<"2", "1", "4", "7", "4", "8", "3", "6", "4", "8">>, FALSE,
            IntVal(FALSE, I32MinMag)),
      Piece(<<"2", ".", "5">>, FALSE,
            [t |-> "Double", neg |-> FALSE, cls |-> "fin", mant |-> <<2, 5>>, e |-> 1]),
      Piece(<<"\"", "s", "\"">>, FALSE, String(<<"s">>)),
      Piece(<<"t", "r", "u", "e">>, FALSE, Bool(TRUE)),
      Piece(<<"[", "5", ",", "1", "]">>, FALSE, Array(<<Five, One>>)),
      Piece(<<"[", "2", ".", "5", "]">>, FALSE,
            Array(<<[t |-> "Double", neg |-> FALSE, cls |-> "fin",
                     mant |-> <<2, 5>>, e |-> 1]>>)),
      Piece(<<"#", "[", "F", "F", " ", "0", "1", "]">>, FALSE, HexArray(<<255, 1>>)),
      \* {x=5 y=true}
      Piece(<<"{", "x", "=", "5", " ", "y", "=", "t", "r", "u", "e", "}">>, FALSE,
            Object(X :> Five @@ Y :> Bool(TRUE))),
      Piece(<<"$">>, TRUE, Null) }

SerdePairs == [key : SerdeKeys, val : SerdeValues]

SerdeText(ps) == <<"{">> \o PairsText(ps) \o <<"}", "\n", "t">>

\* the structs of the tests, their field names shortened, and a struct of a
\* bool and a String
Schemas ==
    { TStruct(<<X>>, <<TI32>>),
      TStruct(<<X, Y>>, <<TI64, TVec(TI32)>>),
      TStruct(<<X, Y>>, <<TF32, TI32>>),
      TStruct(<<X>>, <<TStruct(<<X>>, <<TI32>>)>>),
      TStruct(<<X, Y>>, <<TBool, TString>>),
      TStruct(<<>>, <<>>) }

InitSerde ==
    /\ meta \in [pairs : SeqsUpTo(SerdePairs, MaxFields)]
    /\ input = SerdeText(meta.pairs)
    /\ pc = "start"
    /\ res = Error
    /\ out = DErr(<<>>)
    /\ acc = <<>>

\* a call of serde_kv3::<T> on the text
SerdeKv3 ==
    /\ pc = "start"
    /\ \E T \in Schemas, order \in KeyOrders :
          /\ out' = serde_kv3(input, T, order)
          /\ acc' = [schema |-> T, order |-> order]
    /\ pc' = "mapped"
    /\ UNCHANGED <<input, meta, res>>

NextSerde == SerdeKv3

SpecSerde == InitSerde /\ [][NextSerde]_vars

RECURSIVE KindFits(_, _)
\* the value v is of the kind the type T is made from: a number for a number,
\* a sequence of fitting elements for a Vec, a mapping that holds every field
\* with a fitting value for a struct
KindFits(T, v) ==
    IF T.k \in {"i32", "i64"} THEN v.t = "Int"
    ELSE IF T.k = "f32" THEN v.t \in {"Int", "Double"}
    ELSE IF T.k = "bool" THEN v.t = "Bool"
    ELSE IF T.k = "String" THEN v.t = "String"
    ELSE IF T.k = "Vec"
    THEN \/ v.t = "Array" /\ \A j \in 1..Len(v.a) : KindFits(T.el, v.a[j])
         \/ v.t = "HexArray" /\ (Len(v.h) = 0 \/ T.el.k \in {"i32", "i64", "f32"})
    ELSE /\ v.t = "Object"
         /\ \A j \in 1..Len(T.names) :
               /\ T.names[j] \in DOMAIN v.f
               /\ KindFits(T.types[j], v.f[T.names[j]])

\* the elements of a sequence value, the bytes of a hex array as integers
Elements(v) ==
    IF v.t = "HexArray"
    THEN [j \in 1..Len(v.h) |->
             IntVal(FALSE, IF v.h[j] = 255 THEN <<2, 5, 5>> ELSE <<v.h[j]>>)]
    ELSE v.a

RECURSIVE Accepts(_, _)
\* the type T accepts the value v: as KindFits, but an i32 accepts an integer
\* of its range only, and a struct also accepts a sequence that gives its
\* fields in declaration order
Accepts(T, v) ==
    IF T.k = "i32" THEN v.t = "Int" /\ InI32(v)
    ELSE IF T.k = "i64" THEN v.t = "Int"
    ELSE IF T.k = "f32" THEN v.t \in {"Int", "Double"}
    ELSE IF T.k = "bool" THEN v.t = "Bool"
    ELSE IF T.k = "String" THEN v.t = "String"
    ELSE IF T.k = "Vec"
    THEN /\ v.t \in {"Array", "HexArray"}
         /\ \A j \in 1..Len(Elements(v)) : Accepts(T.el, Elements(v)[j])
    ELSE \/ /\ v.t = "Object"
            /\ \A j \in 1..Len(T.names) :
                  /\ T.names[j] \in DOMAIN v.f
                  /\ Accepts(T.types[j], v.f[T.names[j]])
         \/ /\ v.t \in {"Array", "HexArray"}
            /\ Len(Elements(v)) >= Len(T.names)
            /\ \A j \in 1..Len(T.names) : Accepts(T.types[j], Elements(v)[j])

MaxCalls == 7

MaxElements == 2

AccessKeys == {X, Y, <<"z">>}

AccessValues == {One, Bool(TRUE)}

HexBytes == {0, 255}

AccessOrders ==
    {o \in [1..Cardinality(AccessKeys) -> AccessKeys] :
        \A i, j \in DOMAIN o : o[i] = o[j] => i = j}

AccessObjects == UNION {[D -> AccessValues] : D \in SUBSET AccessKeys}

AccessSequences ==
    {Array(a) : a \in SeqsUpTo(AccessValues, MaxElements)}
        \cup {HexArray(h) : h \in SeqsUpTo(HexBytes, MaxElements)}

InitAccess ==
    /\ \/ meta \in [value : {Object(f) : f \in AccessObjects}, order : AccessOrders]
       \/ meta \in [value : AccessSequences, order : {<<>>}]
    /\ input = <<>>
    /\ pc = "start"
    /\ res = Error
    /\ out = <<>>
    /\ acc = <<>>

\* deserialize_any on the value: the visitor receives the access object
DeserializeAny ==
    /\ pc = "start"
    /\ acc' = IF meta.value.t = "Object"
              THEN [kind |-> "map", a |-> KV3ObjectMapAccess(meta.value.f, meta.order)]
              ELSE [kind |-> "seq", a |-> KV3ValueSeqAccess(meta.value)]
    /\ pc' = "visiting"
    /\ UNCHANGED <<input, meta, res, out>>

Logged(op, before, n) == [op |-> op, before |-> before, ok |-> n.ok, r |-> n.r]

NextKeySeed ==
    /\ pc = "visiting" /\ acc.kind = "map" /\ Len(out) < MaxCalls
    /\ acc' = [acc EXCEPT !.a = next_key_seed(acc.a).acc]
    /\ out' = Append(out, Logged("key", Len(acc.a.iter), next_key_seed(acc.a)))
    /\ UNCHANGED <<input, meta, res, pc>>

NextValueSeed ==
    /\ pc = "visiting" /\ acc.kind = "map" /\ Len(out) < MaxCalls
    /\ acc' = [acc EXCEPT !.a = next_value_seed(acc.a).acc]
    /\ out' = Append(out, Logged("value", Len(acc.a.iter), next_value_seed(acc.a)))
    /\ UNCHANGED <<input, meta, res, pc>>

NextElementSeed ==
    /\ pc = "visiting" /\ acc.kind = "seq" /\ Len(out) < MaxCalls
    /\ acc' = [acc EXCEPT !.a = next_element_seed(acc.a).acc]
    /\ out' = Append(out, Logged("element", Len(acc.a.iter), next_element_seed(acc.a)))
    /\ UNCHANGED <<input, meta, res, pc>>

NextAccess == DeserializeAny \/ NextKeySeed \/ NextValueSeed \/ NextElementSeed

SpecAccess == InitAccess /\ [][NextAccess]_vars

\* the calls of the log that yielded something
Yielded(op) == {j \in 1..Len(out) : out[j].op = op /\ out[j].ok /\ out[j].r.some}

\* the call that yielded the most recent key before call j
LastKey(j) == CHOOSE l \in Yielded("key") : l < j /\ \A m \in Yielded("key") : m < j => m <= l

\* every yielded key is directly followed by the call for its value
TakesEachValue ==
    \A j \in Yielded("key") : j < Len(out) /\ out[j + 1].op = "value"

\* C10: KV3ObjectMapAccess yields each key of the map once and, to
\* next_value_seed, the value of the most recently yielded key, no key and no
\* value twice; KV3ValueSeqAccess yields the elements once each in their
\* order; a call yields an entry exactly when one is left, so that every
\* call after the last entry reports the end (None), and a visitor that takes
\* the value after each key has been handed every entry when the end is
\* reported
C10_EachEntryOnce ==
    (pc = "visiting") =>
        /\ \A j \in 1..Len(out) :
              out[j].op \in {"key", "element"} =>
                  (out[j].ok /\ (out[j].r.some <=> out[j].before > 0))
        /\ acc.kind = "map" =>
              /\ \A j, l \in Yielded("key") : out[j].r.v = out[l].r.v => j = l
              /\ \A j \in Yielded("key") : out[j].r.v \in DOMAIN meta.value.f
              /\ Cardinality(Yielded("key")) + Len(acc.a.iter)
                    = Cardinality(DOMAIN meta.value.f)
              /\ \A j \in Yielded("value") :
                    /\ \E l \in Yielded("key") : l < j
                    /\ out[j].r.v = meta.value.f[out[LastKey(j)].r.v]
                    /\ \A l \in Yielded("value") : LastKey(l) = LastKey(j) => l = j
              /\ (TakesEachValue /\ Len(acc.a.iter) = 0) =>
                    {<<out[LastKey(j)].r.v, out[j].r.v>> : j \in Yielded("value")}
                        = {<<k, meta.value.f[k]>> : k \in DOMAIN meta.value.f}
        /\ acc.kind = "seq" =>
              /\ Cardinality(Yielded("element")) + Len(acc.a.iter)
                    = Len(Elements(meta.value))
              /\ \A j \in Yielded("element") :
                    out[j].r.v = Elements(meta.value)[
                        Cardinality({l \in Yielded("element") : l <= j})]

\* a map of three entries visited key by key, each value taken, and a
\* further call that reports the end
C10_Witness ==
    /\ pc = "visiting" /\ acc.kind = "map"
    /\ DOMAIN meta.value.f = AccessKeys
    /\ Len(out) = 7
    /\ TakesEachValue
    /\ Cardinality(Yielded("value")) = 3
    /\ out[7].op = "key" /\ ~out[7].r.some

(***************************************************************************)
(* Two runs on one text with one schema: SpecRuns.  Each run builds its    *)
(* own HashMap, whose hasher is seeded anew, so the order in which the     *)
(* entries of an object are iterated is chosen for each run apart.         *)
(***************************************************************************)
InitRuns ==
    /\ meta \in [pairs : SeqsUpTo(SerdePairs, MaxFields)]
    /\ input = SerdeText(meta.pairs)
    /\ pc = "start"
    /\ res = Error
    /\ out = DErr(<<>>)
    /\ acc = <<>>

\* parse_kv3 and serde_kv3::<T> on the text
FirstRun ==
    /\ pc = "start"
    /\ res' = parse_kv3(input)
    /\ \E T \in Schemas, order \in KeyOrders :
          /\ out' = serde_kv3(input, T, order)
          /\ acc' = [schema |-> T, order |-> order]
    /\ pc' = "once"
    /\ UNCHANGED <<input, meta>>

\* the same calls once more, on the same text with the same schema
SecondRun ==
    /\ pc = "once"
    /\ \E order \in KeyOrders :
          acc' = [schema |-> acc.schema, order |-> acc.order, again |-> order,
                  res |-> parse_kv3(input),
                  out |-> serde_kv3(input, acc.schema, order)]
    /\ pc' = "twice"
    /\ UNCHANGED <<input, meta, res, out>>

NextRuns == FirstRun \/ SecondRun

SpecRuns == InitRuns /\ [][NextRuns]_vars

\* C11: two runs of parse_kv3 and of serde_kv3 on the same text with the same
\* schema give the same outcome, the same tree or typed value on success and
\* the same error on failure, whatever the order in which the entries of an
\* object are iterated
C11_Deterministic ==
    (pc = "twice") => (acc.res = res /\ acc.out = out)

\* the part of C11 that holds: the tree of parse_kv3, whether serde_kv3
\* succeeds, and the typed value of a success are the same in both runs
C11_SameButTheError ==
    (pc = "twice") =>
        /\ acc.res = res
        /\ acc.out.ok = out.ok
        /\ out.ok => acc.out.v = out.v

(***************************************************************************)
(* Calls of parse_string: SpecString.  The text is an opening delimiter,   *)
(* at most MaxContent characters among which a quote, a backslash, a space *)
(* and a line break, a closing delimiter or none, and a tail.              *)
(***************************************************************************)
MaxContent == 3

StringChars == {"a", "\"", "\\", " ", "\n"}

InitString ==
    /\ meta \in [open : {Q1, Q3}, content : SeqsUpTo(StringChars, MaxContent),
                 close : {<<>>, Q1, Q3}, tail : {<<>>, <<"x">>, Q1}]
    /\ input = meta.open \o meta.content \o meta.close \o meta.tail
    /\ pc = "start"
    /\ res = Error
    /\ out = <<>>
    /\ acc = <<>>

StringCall ==
    /\ pc = "start"
    /\ res' = parse_string(input, 1)
    /\ pc' = "string"
    /\ UNCHANGED <<input, meta, out, acc>>

NextString == StringCall

SpecString == InitString /\ [][NextString]_vars

\* the positions from which the input reads t, at or after from
Occurrences(t, from) ==
    {k \in from..Len(input) :
        k + Len(t) - 1 <= Len(input) /\ SubSeq(input, k, k + Len(t) - 1) = t}

First(S) == CHOOSE k \in S : \A l \in S : k <= l

\* the result of a literal opened by the delimiter t: the characters up to
\* the first following t as they are, the cursor right after that t
Verbatim(t) ==
    Ok(First(Occurrences(t, Len(t) + 1)) + Len(t),
       SubSeq(input, Len(t) + 1, First(Occurrences(t, Len(t) + 1)) - 1))

Delimited(t) == 1 \in Occurrences(t, 1) /\ Occurrences(t, Len(t) + 1) # {}

\* C12: parse_string tries the triple-quoted form before the single-quoted
\* form and returns exactly the characters between the opening delimiter and
\* the first following occurrence of the same delimiter, quotes of the other
\* form, backslashes, spaces and line breaks included as they are, with the
\* cursor right after that closing delimiter; a text that is neither form is
\* not accepted
C12_StringVerbatim ==
    (pc = "string") =>
        IF Delimited(Q3) THEN res = Verbatim(Q3)
        ELSE IF Delimited(Q1) THEN res = Verbatim(Q1)
        ELSE ~IsOk(res)

\* a triple-quoted literal whose content is a space, a backslash and a line
\* break, followed by more text
C12_Witness ==
    /\ pc = "string" /\ IsOk(res)
    /\ meta.open = Q3
    /\ res.v = <<" ", "\\", "\n">>
    /\ Rest(input, res.p) = <<"x">>

(***************************************************************************)
(* The skipper applied to what it left: SpecSkipTwice.                     *)
(***************************************************************************)
\* a second call of skip_comments_and_whitespace, on the text the first call
\* returned
SkipAgain ==
    /\ pc = "skipped" /\ IsOk(res)
    /\ out' = skip_comments_and_whitespace(Rest(input, res.p), 1)
    /\ pc' = "twice"
    /\ UNCHANGED <<input, meta, res, acc>>

NextSkipTwice == SkipCall \/ SkipAgain

SpecSkipTwice == InitSkip /\ [][NextSkipTwice]_vars

\* C13: when skip_comments_and_whitespace succeeds and leaves the text r, a
\* second call on r succeeds, consumes nothing and leaves r
C13_SkipIdempotent ==
    (pc = "twice") =>
        /\ IsOk(out)
        /\ out.p = 1
        /\ Rest(Rest(input, res.p), out.p) = Rest(input, res.p)

\* a first call that skipped whitespace and a comment and stopped in front of
\* a comment that is not terminated, and a second call on the rest
C13_Witness ==
    /\ pc = "twice" /\ IsOk(out)
    /\ res.p >= 6
    /\ StartsWith(input, 1, <<" ", "/", "*">>)
    /\ Unterminated(input, res.p)

(***************************************************************************)
(* A value that starts with an opener: SpecCommit.  The text is an opener  *)
(* followed by at most MaxCommitTokens tokens; it is given to parse_value, *)
(* to the repetition of pairs as the value of a pair, to the list of array *)
(* elements as the element after a separator, and to parse_kv3 as the      *)
(* value of the only pair of a document.  res is the result of parse_value *)
(* on the text, out the result of the enclosing parser on the same text.   *)
(***************************************************************************)
MaxCommitTokens == 3

Openers == {<<"[">>, <<"#", "[">>, <<"{">>}

CommitTokens ==
    { <<"[">>, <<"]">>, <<"{">>, <<"}">>, <<"a", "=">>, <<"1">>, <<",">>, <<" ">> }

InitCommit ==
    /\ meta \in [open : Openers, body : SeqsUpTo(CommitTokens, MaxCommitTokens)]
    /\ input = meta.open \o Flatten(meta.body)
    /\ pc = "start"
    /\ res = Error
    /\ out = Error
    /\ acc = <<>>

\* parse_value on the text
ValueCall ==
    /\ pc = "start"
    /\ res' = parse_value(input, 1)
    /\ pc' = "value"
    /\ UNCHANGED <<input, meta, out, acc>>

\* many0(ws(parse_key_value)) on a pair whose value is the text
PairsCall ==
    /\ pc = "value"
    /\ out' = many0_key_value(<<"a", "=">> \o input, 1, <<>>)
    /\ pc' = "pairs"
    /\ UNCHANGED <<input, meta, res, acc>>

\* separated_list0 on an element, a separator and the text
ElementsCall ==
    /\ pc = "value"
    /\ out' = parse_elements(<<"1", ",">> \o input, 1)
    /\ pc' = "elements"
    /\ UNCHANGED <<input, meta, res, acc>>

\* parse_kv3 on the document whose only pair has the text as its value
DocumentCall ==
    /\ pc = "value"
    /\ out' = parse_kv3(<<"{", "a", "=">> \o input \o <<"\n", "}">>)
    /\ pc' = "document"
    /\ UNCHANGED <<input, meta, res, acc>>

NextCommit == ValueCall \/ PairsCall \/ ElementsCall \/ DocumentCall

SpecCommit == InitCommit /\ [][NextCommit]_vars

\* C14: a value whose opener was consumed and that cannot be completed and
\* closed fails the call for good (a Failure, after which alt tries no later
\* alternative), and the enclosing repetition of pairs or of array elements
\* does not end its list there as if nothing followed
C14_OpenerCommits ==
    (pc \in {"value", "pairs", "elements"} /\ ~IsOk(res)) =>
        /\ res.k = "Fail"
        /\ pc # "value" => ~IsOk(out)

\* what holds of C14: no later alternative succeeds on a text that starts with
\* an opener, so the value read is the array, hex array or object or there is
\* none, and a document whose value cannot be closed is not accepted
C14_CallStillFails ==
    /\ (pc # "start" /\ IsOk(res)) => res.v.t \in {"Array", "HexArray", "Object"}
    /\ (pc = "document" /\ ~IsOk(res)) => ~IsOk(out)

(***************************************************************************)
(* The alternatives of parse_value one by one and in another order:        *)
(* SpecOrder.  The text is at most MaxOrderTokens tokens, the cursor any   *)
(* position of it.  acc holds the results of the eight alternatives at the *)
(* cursor, res the result of parse_value, out the result of alt over the   *)
(* same alternatives tried in the order meta.order.  One token is a number *)
(* that does not fit i64, the fatal result of parse_number_or_float.       *)
(***************************************************************************)
MaxOrderTokens == 2

\* digits of an integer above i64::MAX
TooLong == [j \in 1..20 |-> "9"]

OrderTokens ==
    { <<"[", "1", "]">>, <<"#", "[", "0", "F", "]">>, <<"{", "a", "=", "1", "}">>,
      <<"f", "a", "l", "s", "e">>, <<"t", "r", "u", "e">>, <<"n", "u", "l", "l">>,
      <<"-", "1", ".", "5">>, <<"\"", "s", "\"">>, <<" ">>, <<"[">>,
      TooLong }

\* the eight alternatives of parse_value at the cursor, in the order of the
\* source
Alternatives(s, i) ==
    << parse_array(s, i),
       parse_hex_array(s, i),
       parse_object(s, i),
       value_tag(s, i, <<"f", "a", "l", "s", "e">>, Bool(FALSE)),
       value_tag(s, i, <<"t", "r", "u", "e">>, Bool(TRUE)),
       value_tag(s, i, <<"n", "u", "l", "l">>, Null),
       parse_number_or_float(s, i),
       map_string(parse_string(s, i)) >>

\* the order of the source with alternative k moved to the front
MoveToFront(k) ==
    <<k>> \o SubSeq(<<1, 2, 3, 4, 5, 6, 7, 8>>, 1, k - 1)
          \o SubSeq(<<1, 2, 3, 4, 5, 6, 7, 8>>, k + 1, 8)

\* orders in which every alternative is the first one of some order, and the
\* order of the source reversed
Orders == {MoveToFront(k) : k \in 1..8} \cup {<<8, 7, 6, 5, 4, 3, 2, 1>>}

RECURSIVE alt_in_order(_, _, _)
\* alt over the results rs tried in the given order, from its j-th place
alt_in_order(rs, order, j) ==
    IF j > Len(order) THEN Error
    ELSE alt(rs[order[j]], alt_in_order(rs, order, j + 1))

InitOrder ==
    /\ \E body \in SeqsUpTo(OrderTokens, MaxOrderTokens) :
         \E i \in 1..(Len(Flatten(body)) + 1) :
            /\ input = Flatten(body)
            /\ meta = [i |-> i, order |-> <<>>]
    /\ pc = "start"
    /\ res = Error
    /\ out = Error
    /\ acc = <<>>

\* parse_value at the cursor, and each of its alternatives there
TryEach ==
    /\ pc = "start"
    /\ res' = parse_value(input, meta.i)
    /\ acc' = Alternatives(input, meta.i)
    /\ pc' = "tried"
    /\ UNCHANGED <<input, meta, out>>

\* the same alternatives tried in another order
ValueInOrder ==
    /\ pc = "tried"
    /\ \E order \in Orders :
         /\ meta' = [meta EXCEPT !.order = order]
         /\ out' = alt_in_order(acc, order, 1)
    /\ pc' = "value"
    /\ UNCHANGED <<input, res, acc>>

NextOrder == TryEach \/ ValueInOrder

SpecOrder == InitOrder /\ [][NextOrder]_vars

\* the alternatives that succeed at the cursor
Succeeding == {k \in 1..8 : IsOk(acc[k])}

\* C15: at any cursor at most one of the eight alternatives of parse_value
\* succeeds, and parse_value succeeds, returns the value and leaves the cursor
\* that the alternatives tried in another order give
C15_OneAlternative ==
    /\ (pc \in {"tried", "value"}) => Cardinality(Succeeding) <= 1
    /\ (pc = "value") =>
          /\ IsOk(out) <=> IsOk(res)
          /\ IsOk(res) => (out.v = res.v /\ out.p = res.p)

\* an array read at a cursor inside the text with the alternatives tried in
\* the reverse of the order of the source
C15_Witness ==
    /\ pc = "value"
    /\ meta.i > 1
    /\ meta.order = <<8, 7, 6, 5, 4, 3, 2, 1>>
    /\ Succeeding = {1}
    /\ IsOk(out) /\ out.v.t = "Array" /\ Len(out.v.a) = 1

====
